---- MODULE Spec2Model ----
(***************************************************************************)
(* Model of the mini-dify backend's retrieval fusion and orchestration     *)
(* core:                                                                   *)
(*   - the linear workflow interpreter (app/services/workflow_service.py)  *)
(*   - the hybrid search fusion (app/services/search_service.py) behind    *)
(*     the /hybrid endpoint (app/routers/search_router.py)                 *)
(*   - the assistants and the chat endpoint (app/routers/chat_router.py,   *)
(*     app/services/rag_service.py, app/services/assistant_service.py)     *)
(*   - the two chunkers (app/services/document_service.py,                 *)
(*     app/services/qdrant_service.py)                                     *)
(* Dictionaries are functions from key strings to value strings (values    *)
(* of other types are written as strings); scores are exact rationals      *)
(* <<numerator, denominator>> in lowest terms (the rounding of binary      *)
(* floating point is not modelled).  The external indexes and the model    *)
(* endpoint are inputs: each call answers with a value or fails.           *)
(***************************************************************************)
EXTENDS Integers, Sequences, FiniteSets, TLC

VARIABLES
    \* ---- one run of workflow_service.execute_workflow
    workflow,           \* the WorkflowDefinition passed in
    input_data,         \* the caller's input mapping
    passed_input,       \* the items of input_data at the call
    kr_hits,            \* number of hits the search adapters return in this run
    pc,                 \* position of the run: "start", "loop", "return", "done" ("idle": no run)
    context,            \* the execution context
    execution_results,  \* list of NodeExecutionResult
    current_node_id,
    iteration,
    halted_by,          \* which exit left the while loop
    returned,           \* the returned mapping (NoReturn before the return)
    \* ---- two runs of execute_workflow served at the same time
    runs,               \* run number -> the run's workflow, input and local variables
    \* ---- one call of search_service.hybrid_search, from
    \*      search_router.search_by_hybrid or from rag_service.perform_search
    hs_pc,              \* "request", "keyword", "vector", "fuse", "done", "rejected", "failed", "idle"
    request,            \* the HybridSearchRequest, or the arguments perform_search passes
    keyword_results,    \* keyword_search's return value
    vector_results,     \* vector_search's return value
    response,           \* results returned by hybrid_search
    calls,              \* the adapter calls made so far, in order:
                        \* "lexical", "embedding", "vector", "model"
    asked,              \* the number of hits asked of an index, per index call
    failure,            \* the adapter whose call failed ("": none)
    \* ---- the assistants collection and one request to chat_router.chat
    store,              \* assistant_id -> stored assistant document
    chat_pc,            \* "request", "search", "hybrid", "format", "llm", "done" ("idle": no request)
    chat_request,       \* the ChatRequest
    assistant,          \* what get_assistant returned (NoAssistant: None)
    search_results,     \* perform_search's return value
    chat_context,       \* format_search_results_as_context's return value
    chat_response,      \* the HTTP response of the chat endpoint
    llm_request,        \* the settings the model endpoint was called with
    \* ---- one call of a chunker
    chunker,            \* "split_text_into_chunks" or "_chunk_text" ("": no call)
    ck_pc,              \* "call", "loop", "done" ("idle": no call)
    text,               \* the text, a sequence of characters
    chunk_size,
    overlap,            \* overlap / chunk_overlap
    start,
    chunks,             \* the list being built
    windows             \* the slices taken so far, as <<start, end>> pairs

wfvars == <<workflow, input_data, passed_input, kr_hits, pc, context, execution_results,
            current_node_id, iteration, halted_by, returned>>
hsvars == <<hs_pc, request, keyword_results, vector_results, response, calls, asked, failure>>
chatvars == <<store, chat_pc, chat_request, assistant, search_results,
              chat_context, chat_response, llm_request>>
ckvars == <<chunker, ck_pc, text, chunk_size, overlap, start, chunks, windows>>
vars == <<workflow, input_data, passed_input, kr_hits, pc, context, execution_results,
          current_node_id, iteration, halted_by, returned,
          hs_pc, request, keyword_results, vector_results, response, calls, asked, failure,
          store, chat_pc, chat_request, assistant, search_results,
          chat_context, chat_response, llm_request,
          chunker, ck_pc, text, chunk_size, overlap, start, chunks, windows,
          runs>>

-----------------------------------------------------------------------------
(* Dictionaries *)

EmptyDict == [k \in {} |-> ""]

\* dict.update(o): keys of o overwrite, other keys keep their value
DictUpdate(d, o) ==
    [k \in (DOMAIN d) \cup (DOMAIN o) |-> IF k \in DOMAIN o THEN o[k] ELSE d[k]]

\* {**input_data}: a new mapping with the same items
DictCopy(d) == [k \in DOMAIN d |-> d[k]]

-----------------------------------------------------------------------------
(* Workflow definitions *)

\* the fixed iteration ceiling of execute_workflow
max_iterations == 50

NodeTypes == {"start", "knowledge_retrieval", "llm", "code", "condition",
              "http_request", "variable", "end"}

\* NodeConfig, restricted to the fields the handlers read
Config(search_type, code, variables) ==
    [search_type |-> search_type, code |-> code, variables |-> variables]

NoConfig == Config("", "", EmptyDict)

\* WorkflowNode
Node(id, type, config, next_nodes) ==
    [id |-> id, type |-> type, config |-> config, next_nodes |-> next_nodes]

\* Scripts of code nodes.  Each is a program the exec call of
\* execute_code_node accepts with empty builtins.
Scripts == {"",
            "result['x']='c'",
            "1/0",
            "context.clear()",
            "context['x']='c'; 1/0",
            "context['x']='c'; result=None",
            "context['items'].clear()"}

\* literal mappings of variable nodes
VariableSets == {EmptyDict,
                 [k \in {"user_message"} |-> "v"],
                 [k \in {"x", "y"} |-> "v"]}

\* a node's type together with its configuration
Kinds ==
    {<<t, NoConfig>> : t \in NodeTypes \ {"code", "variable", "knowledge_retrieval"}}
    \cup {<<"knowledge_retrieval", Config(s, "", EmptyDict)>> : s \in {"", "keyword"}}
    \cup {<<"code", Config("", c, EmptyDict)>> : c \in Scripts}
    \cup {<<"variable", Config("", "", v)>> : v \in VariableSets}

FirstKinds ==
    {k \in Kinds : \/ k[1] \in {"start", "variable", "end"}
                   \/ k[2].code \in {"context.clear()", "context['x']='c'; result=None"}}
LastKinds  == {k \in Kinds : k[1] \in {"end", "llm"}}

\* the successor lists of the three nodes n1, n2, n3 and the start node id
Shapes == {
    [start |-> "n1", next |-> <<(<<"n2">>), (<<"n3">>), (<<>>)>>],          \* n1 -> n2 -> n3
    [start |-> "n1", next |-> <<(<<"n2">>), (<<"n3">>), (<<"n2">>)>>],      \* n3 cycles back to n2
    [start |-> "n1", next |-> <<(<<"n2", "n3">>), (<<>>), (<<>>)>>],        \* two successors
    [start |-> "n1", next |-> <<(<<"n3", "n2">>), (<<"n1">>), (<<"n1">>)>>],
    [start |-> "n1", next |-> <<(<<"n2">>), (<<"nx">>), (<<>>)>>],          \* successor names no node
    [start |-> "nx", next |-> <<(<<"n2">>), (<<"n3">>), (<<>>)>>],          \* start names no node
    [start |-> "",   next |-> <<(<<"n2">>), (<<"n3">>), (<<>>)>>]}

\* the pipeline start -> knowledge_retrieval -> llm -> end
RagWorkflow ==
    [nodes |-> <<Node("n1", "start", NoConfig, <<"n2">>),
                 Node("n2", "knowledge_retrieval", NoConfig, <<"n3">>),
                 Node("n3", "llm", NoConfig, <<"n4">>),
                 Node("n4", "end", NoConfig, <<>>)>>,
     start_node_id |-> "n1"]

\* WorkflowDefinition, restricted to nodes and start_node_id
Workflows ==
    {[nodes |-> <<Node("n1", k1[1], k1[2], s.next[1]),
                  Node("n2", k2[1], k2[2], s.next[2]),
                  Node("n3", k3[1], k3[2], s.next[3])>>,
      start_node_id |-> s.start] :
        s \in Shapes, k1 \in FirstKinds, k2 \in Kinds, k3 \in LastKinds}
    \cup {RagWorkflow}

\* values that are lists: objects a script can change in place
Lists == {"[1]", "[]"}

Inputs == {EmptyDict,
           [k \in {"user_message", "items"} |-> IF k = "items" THEN "[1]" ELSE "q"]}

\* largest number of hits a search returns to a knowledge_retrieval node
MaxKrHits == 1

-----------------------------------------------------------------------------
(* execute_workflow *)

\* node_map = {node.id: node for node in workflow.nodes}; node_map.get(id):
\* the last node of the list with that id, or NoNode
NoNode == Node("", "", NoConfig, <<>>)

NodeMapGet(nodes, id) ==
    LET idx == {i \in 1..Len(nodes) : nodes[i].id = id}
    IN  IF idx = {} THEN NoNode
        ELSE nodes[CHOOSE i \in idx : \A j \in idx : j <= i]

\* NodeExecutionResult (node_name and execution_time_ms are not modelled)
Result(node, output, success, error) ==
    [node_id |-> node.id, node_type |-> node.type, output |-> output,
     success |-> success, error |-> error]

\* what a handler can do: return an output mapping, raise, or return a value
\* that is no mapping; ctx is the context as the handler leaves it
Returns(output, ctx) == [kind |-> "return", output |-> output, ctx |-> ctx]
Raises(error, ctx)   == [kind |-> "raise", output |-> EmptyDict, error |-> error, ctx |-> ctx]


\* a handler that returned a value that is no mapping (None)
ReturnsNone(ctx)     == [kind |-> "none", output |-> EmptyDict, error |-> "", ctx |-> ctx]

\* text written to search_context when a search returns no hit
NoDocumentsText == "no documents found"

\* execute_knowledge_retrieval_node with an empty search_context for no hit
execute_knowledge_retrieval_node_EmptyContext(node, ctx, adapter_ok, hits) ==
    IF ~adapter_ok THEN Raises("search failed", ctx)
    ELSE Returns([k \in {"search_results", "search_context", "total_results"} |->
                    CASE k = "search_results" -> "hits:" \o ToString(hits)
                      [] k = "search_context" ->
                            IF hits > 0 THEN "documents:" \o ToString(hits) ELSE ""
                      [] OTHER -> ToString(hits)],
                 ctx)

\* execute_knowledge_retrieval_node: the search named by config.search_type
\* (hybrid by default) either raises or returns kr_hits hits, which are
\* formatted into search_context
execute_knowledge_retrieval_node(node, ctx, adapter_ok, hits) ==
    IF ~adapter_ok THEN Raises("search failed", ctx)
    ELSE Returns([k \in {"search_results", "search_context", "total_results"} |->
                    CASE k = "search_results" -> "hits:" \o ToString(hits)
                      [] k = "search_context" ->
                            IF hits > 0 THEN "documents:" \o ToString(hits)
                            ELSE NoDocumentsText
                      [] OTHER -> ToString(hits)],
                 ctx)

\* execute_llm_node: the completion call either raises or returns a message
execute_llm_node(node, ctx, adapter_ok) ==
    IF ~adapter_ok THEN Raises("completion failed", ctx)
    ELSE Returns([k \in {"llm_answer", "llm_model", "llm_response"} |->
                    CASE k = "llm_answer" -> "answer"
                      [] k = "llm_model" -> "model"
                      [] OTHER -> "response"],
                 ctx)

\* exec(code, {"__builtins__": {}}, {"context": context, "result": {}}):
\* the script works on the context object itself.  raised: the script raised;
\* result: the value bound to result afterwards (is_mapping FALSE for None)
Exec(code, ctx) ==
    CASE code = "" ->
            [raised |-> FALSE, error |-> "", is_mapping |-> TRUE, result |-> EmptyDict, ctx |-> ctx]
      [] code = "result['x']='c'" ->
            [raised |-> FALSE, error |-> "", is_mapping |-> TRUE,
             result |-> [k \in {"x"} |-> "c"], ctx |-> ctx]
      [] code = "1/0" ->
            [raised |-> TRUE, error |-> "division by zero", is_mapping |-> TRUE,
             result |-> EmptyDict, ctx |-> ctx]
      [] code = "context.clear()" ->
            [raised |-> FALSE, error |-> "", is_mapping |-> TRUE, result |-> EmptyDict,
             ctx |-> EmptyDict]
      [] code = "context['x']='c'; 1/0" ->
            [raised |-> TRUE, error |-> "division by zero", is_mapping |-> TRUE,
             result |-> EmptyDict, ctx |-> DictUpdate(ctx, [k \in {"x"} |-> "c"])]
      [] code = "context['items'].clear()" ->
            IF "items" \in DOMAIN ctx /\ ctx["items"] \in Lists
            THEN [raised |-> FALSE, error |-> "", is_mapping |-> TRUE,
                  result |-> EmptyDict, ctx |-> [ctx EXCEPT !["items"] = "[]"]]
            ELSE [raised |-> TRUE, error |-> "'items'", is_mapping |-> TRUE,
                  result |-> EmptyDict, ctx |-> ctx]
      [] OTHER -> \* "context['x']='c'; result=None"
            [raised |-> FALSE, error |-> "", is_mapping |-> FALSE, result |-> EmptyDict,
             ctx |-> DictUpdate(ctx, [k \in {"x"} |-> "c"])]

\* execute_code_node: an exception of the script is caught and returned as
\* the mapping {"error": message}
execute_code_node(node, ctx) ==
    LET e == Exec(node.config.code, ctx)
    IN  IF e.raised THEN Returns([k \in {"error"} |-> e.error], e.ctx)
        ELSE IF e.is_mapping THEN Returns(e.result, e.ctx)
        ELSE ReturnsNone(e.ctx)

\* execute_variable_node: the configured literal mapping
execute_variable_node(node, ctx) == Returns(node.config.variables, ctx)

\* the dispatch of execute_node on the node type
Dispatch(node, ctx, adapter_ok, hits) ==
    CASE node.type = "knowledge_retrieval" ->
            execute_knowledge_retrieval_node(node, ctx, adapter_ok, hits)
      [] node.type = "llm" -> execute_llm_node(node, ctx, adapter_ok)
      [] node.type = "code" -> execute_code_node(node, ctx)
      [] node.type = "variable" -> execute_variable_node(node, ctx)
      [] node.type \in {"start", "end"} -> Returns(EmptyDict, ctx)
      [] OTHER -> Returns([k \in {"error"} |-> "Unsupported node type"], ctx)

\* execute_node: the handler's output with success=True; an exception of the
\* handler, or an output NodeExecutionResult does not accept, gives
\* success=False with an empty output
execute_node(node, ctx, adapter_ok, hits) ==
    LET h == Dispatch(node, ctx, adapter_ok, hits)
    IN  [result |-> CASE h.kind = "return" -> Result(node, h.output, TRUE, "")
                      [] h.kind = "raise" -> Result(node, EmptyDict, FALSE, h.error)
                      [] OTHER -> Result(node, EmptyDict, FALSE, "validation error"),
         ctx |-> h.ctx]

\* LoopCondition with the ceiling compared by <= instead of <
LoopCondition_OffByOne(node_id, iter) == node_id /= "" /\ iter <= max_iterations

\* the while condition of execute_workflow
LoopCondition(node_id, iter) == node_id /= "" /\ iter < max_iterations

\* the caller's mapping after a handler worked on the context: {**input_data}
\* copies the keys, not the values, so a list of the input that the context
\* still holds is one object, and a change made to it in place shows in both
SharedValues(inp, before, after) ==
    [k \in DOMAIN inp |->
        IF /\ inp[k] \in Lists
           /\ k \in DOMAIN before /\ before[k] = inp[k]
           /\ k \in DOMAIN after /\ after[k] \in Lists
        THEN after[k] ELSE inp[k]]

\* context.update(result.output) after a successful node
MergeOutput(ctx, result) == DictUpdate(ctx, result.output)

\* Advance following the last successor instead of the first
Advance_LastSuccessor(node) ==
    IF node.type = "end" THEN [halt |-> "end", next |-> node.id]
    ELSE IF node.next_nodes /= <<>>
         THEN [halt |-> "", next |-> node.next_nodes[Len(node.next_nodes)]]
    ELSE [halt |-> "no_successor", next |-> node.id]

\* the rest of the loop body after a successful node: stop at an end node,
\* go to next_nodes[0], or stop when there is no successor
Advance(node) ==
    IF node.type = "end" THEN [halt |-> "end", next |-> node.id]
    ELSE IF node.next_nodes /= <<>> THEN [halt |-> "", next |-> node.next_nodes[1]]
    ELSE [halt |-> "no_successor", next |-> node.id]

\* AfterNode without the break at a failed node
AfterNode_NoBreak(node, r) ==
    [context |-> IF r.result.success THEN MergeOutput(r.ctx, r.result) ELSE r.ctx,
     halt |-> Advance(node).halt, next |-> Advance(node).next]

\* the loop body from the result of execute_node on
AfterNode(node, r) ==
    IF r.result.success
    THEN [context |-> MergeOutput(r.ctx, r.result),
          halt |-> Advance(node).halt, next |-> Advance(node).next]
    ELSE [context |-> r.ctx, halt |-> "failed", next |-> node.id]

\* OverallSuccess with any() in place of all()
OverallSuccess_Any(results) == \E i \in 1..Len(results) : results[i].success

\* OverallSuccess that requires at least one executed node
OverallSuccess_NonEmpty(results) ==
    results /= <<>> /\ \A i \in 1..Len(results) : results[i].success

\* all(r.success for r in execution_results)
OverallSuccess(results) == \A i \in 1..Len(results) : results[i].success

NoReturn == [returned |-> FALSE]

\* no second request is served
NoRuns == <<>>

\* the returned mapping (ids, names and times are not modelled)
ReturnValue(inp, ctx, results) ==
    [returned |-> TRUE, input_data |-> inp, output_data |-> ctx,
     nodes_executed |-> results, success |-> OverallSuccess(results)]


\* the search request is idle while a workflow runs
SearchIdle ==
    /\ hs_pc = "idle"
    /\ request = [top_k |-> 0]
    /\ keyword_results = <<>>
    /\ vector_results = <<>>
    /\ response = <<>>
    /\ calls = <<>>
    /\ asked = <<>>
    /\ failure = ""

\* None, as get_assistant returns it for an id the collection does not hold
NoAssistant == [assistant_id |-> ""]

\* no response has been sent
NoResponse == [status |-> 0]

\* no context text has been made
NoContext == [header |-> "", documents |-> <<>>]

\* the model endpoint has not been called
NoLlmRequest == [model |-> ""]

\* no chat request is served and no assistant is stored
ChatIdle ==
    /\ store = EmptyDict
    /\ chat_pc = "idle"
    /\ chat_request = [assistant_id |-> ""]
    /\ assistant = NoAssistant
    /\ search_results = <<>>
    /\ chat_context = NoContext
    /\ chat_response = NoResponse
    /\ llm_request = NoLlmRequest

\* no chunker is called
ChunkIdle ==
    /\ chunker = ""
    /\ ck_pc = "idle"
    /\ text = <<>>
    /\ chunk_size = 0
    /\ overlap = 0
    /\ start = 0
    /\ chunks = <<>>
    /\ windows = <<>>

\* a workflow, an input and the behaviour of the search index are given
InitWorkflow ==
    /\ workflow \in Workflows
    /\ input_data \in Inputs
    /\ passed_input = input_data
    /\ kr_hits \in (IF \E i \in 1..Len(workflow.nodes) :
                          workflow.nodes[i].type = "knowledge_retrieval"
                    THEN 0..MaxKrHits ELSE {0})
    /\ pc = "start"
    /\ context = EmptyDict
    /\ execution_results = <<>>
    /\ current_node_id = ""
    /\ iteration = 0
    /\ halted_by = ""
    /\ returned = NoReturn
    /\ runs = NoRuns
    /\ SearchIdle
    /\ ChatIdle
    /\ ChunkIdle

\* execute_workflow up to the while loop
Begin ==
    /\ pc = "start"
    /\ context' = DictCopy(input_data)
    /\ execution_results' = <<>>
    /\ current_node_id' = workflow.start_node_id
    /\ iteration' = 0
    /\ pc' = "loop"
    /\ UNCHANGED <<workflow, input_data, passed_input, kr_hits, halted_by, returned>>
    /\ UNCHANGED <<hsvars, chatvars, ckvars, runs>>

\* one iteration whose node id names no node: break
NodeNotFound ==
    /\ pc = "loop"
    /\ LoopCondition(current_node_id, iteration)
    /\ NodeMapGet(workflow.nodes, current_node_id) = NoNode
    /\ iteration' = iteration + 1
    /\ halted_by' = "not_found"
    /\ pc' = "return"
    /\ UNCHANGED <<workflow, input_data, passed_input, kr_hits, context, execution_results,
                   current_node_id, returned>>
    /\ UNCHANGED <<hsvars, chatvars, ckvars, runs>>

\* one iteration that executes a node; the adapters it calls answer or fail
ExecuteNode ==
    /\ pc = "loop"
    /\ LoopCondition(current_node_id, iteration)
    /\ NodeMapGet(workflow.nodes, current_node_id) /= NoNode
    /\ \E adapter_ok \in BOOLEAN :
         LET node == NodeMapGet(workflow.nodes, current_node_id)
             r    == execute_node(node, context, adapter_ok, kr_hits)
             a    == AfterNode(node, r)
         IN  /\ iteration' = iteration + 1
             /\ execution_results' = Append(execution_results, r.result)
             /\ context' = a.context
             /\ current_node_id' = a.next
             /\ halted_by' = a.halt
             /\ input_data' = SharedValues(input_data, context, r.ctx)
             /\ pc' = IF a.halt = "" THEN "loop" ELSE "return"
    /\ UNCHANGED <<workflow, passed_input, kr_hits, returned>>
    /\ UNCHANGED <<hsvars, chatvars, ckvars, runs>>

\* the while condition is false
LoopExit ==
    /\ pc = "loop"
    /\ ~LoopCondition(current_node_id, iteration)
    /\ halted_by' = IF current_node_id = "" THEN "empty_id" ELSE "limit"
    /\ pc' = "return"
    /\ UNCHANGED <<workflow, input_data, passed_input, kr_hits, context, execution_results,
                   current_node_id, iteration, returned>>
    /\ UNCHANGED <<hsvars, chatvars, ckvars, runs>>

\* the return statement
Return ==
    /\ pc = "return"
    /\ returned' = ReturnValue(input_data, context, execution_results)
    /\ pc' = "done"
    /\ UNCHANGED <<workflow, input_data, passed_input, kr_hits, context, execution_results,
                   current_node_id, iteration, halted_by>>
    /\ UNCHANGED <<hsvars, chatvars, ckvars, runs>>

NextWorkflow == Begin \/ NodeNotFound \/ ExecuteNode \/ LoopExit \/ Return

SpecWorkflow == InitWorkflow /\ [][NextWorkflow]_vars

\* every await of a run is answered, so a run that can take a step takes it
LiveSpecWorkflow == SpecWorkflow /\ WF_vars(NextWorkflow)


-----------------------------------------------------------------------------
(* Properties of execute_workflow *)

Last(seq) == seq[Len(seq)]

\* the node an entry of execution_results was produced from
NodeOf(entry) == NodeMapGet(workflow.nodes, entry.node_id)

\* input overridden by the outputs of the first n entries, in order
RECURSIVE MergedOutputs(_, _, _)
MergedOutputs(inp, results, n) ==
    IF n = 0 THEN inp
    ELSE DictUpdate(MergedOutputs(inp, results, n - 1), results[n].output)

\* C1: a failing node's result is recorded with success=false after the
\* results of the nodes before it, which all have success=true, and nothing
\* is executed or recorded after it: a failed entry is the last entry, the
\* loop has been left through the failure exit, and the returned
\* nodes_executed is that list.
C1_FailureIsLastEntry ==
    /\ \A i \in 1..Len(execution_results) :
          ~execution_results[i].success =>
              /\ i = Len(execution_results)
              /\ pc \in {"return", "done"}
              /\ halted_by = "failed"
    /\ halted_by = "failed" =>
          /\ execution_results /= <<>>
          /\ ~Last(execution_results).success
          /\ Last(execution_results).output = EmptyDict
    /\ returned.returned => returned.nodes_executed = execution_results

\* a run has ended at a failing node that is not the first node and has a
\* successor in the workflow
C1_Witness ==
    /\ pc = "done"
    /\ Len(returned.nodes_executed) >= 2
    /\ ~Last(returned.nodes_executed).success
    /\ NodeOf(Last(returned.nodes_executed)).next_nodes /= <<>>
    /\ NodeMapGet(workflow.nodes,
                  NodeOf(Last(returned.nodes_executed)).next_nodes[1]) /= NoNode

\* the run went on although nothing stopped it at its last node: every node
\* succeeded, the last one is no end node and its first successor exists
StoppedOnlyByCeiling ==
    /\ pc = "done"
    /\ execution_results /= <<>>
    /\ OverallSuccess(execution_results)
    /\ NodeOf(Last(execution_results)).type /= "end"
    /\ NodeOf(Last(execution_results)).next_nodes /= <<>>
    /\ NodeMapGet(workflow.nodes,
                  NodeOf(Last(execution_results)).next_nodes[1]) /= NoNode

\* C2: every run terminates; no run records more than 50 entries; a run
\* that nothing but the ceiling stops (a cyclic successor chain) ends after
\* exactly 50 node executions.
C2_TerminatesWithinCeiling ==
    /\ <>(pc = "done")
    /\ [](Len(execution_results) <= max_iterations /\ iteration <= max_iterations)
    /\ [](StoppedOnlyByCeiling =>
            /\ Len(execution_results) = max_iterations
            /\ iteration = max_iterations
            /\ halted_by = "limit")
    /\ [](pc = "done" /\ halted_by = "limit" => Len(execution_results) = max_iterations)

\* a run over a cyclic chain has ended at the ceiling
C2_Witness ==
    /\ pc = "done"
    /\ halted_by = "limit"
    /\ Len(returned.nodes_executed) = max_iterations
    /\ \E i \in 1..Len(execution_results) : \E j \in 1..Len(execution_results) :
          i < j /\ execution_results[i].node_id = execution_results[j].node_id

\* C3: a run stopped by the step ceiling is not reported as an ordinary
\* successful completion: its returned success flag is not true.
C3_StepLimitIsDistinguishable ==
    (returned.returned /\ halted_by = "limit") => ~returned.success

\* C4: when a node fails, output_data is the input overridden by the outputs
\* of the earlier, successful nodes in order, the failing node contributes
\* no key, and success is false.
C4_FailureKeepsMergedContext ==
    (returned.returned /\ halted_by = "failed") =>
        /\ returned.output_data =
              MergedOutputs(returned.input_data, returned.nodes_executed,
                            Len(returned.nodes_executed) - 1)
        /\ ~returned.success

\* C5: a successful node changes the context to the previous context
\* overridden by the node's output, and no step of a run removes a key.
C5_SuccessMergesOutput ==
    [][ /\ (DOMAIN context) \subseteq (DOMAIN context')
        /\ ( /\ Len(execution_results') = Len(execution_results) + 1
             /\ Last(execution_results').success )
           => context' = DictUpdate(context, Last(execution_results').output) ]_vars

\* C6: the returned success flag is the conjunction of the success flags of
\* the entries of nodes_executed, which are the results of the nodes
\* executed in the run.
C6_SuccessIsConjunction ==
    returned.returned =>
        /\ returned.nodes_executed = execution_results
        /\ returned.success =
              (\A i \in 1..Len(execution_results) : execution_results[i].success)
        /\ returned.success = (halted_by /= "failed")

\* a run of several nodes has returned success=false
C6_Witness ==
    /\ returned.returned
    /\ ~returned.success
    /\ Len(returned.nodes_executed) >= 2
    /\ returned.nodes_executed[1].success

\* C7: the executed nodes form the chain from start_node_id along
\* next_nodes[0]: the first entry is the start node, every entry but the
\* last is a successful node that is no end node, and its successor in the
\* list is its next_nodes[0]; while the loop runs, the node to execute next
\* is next_nodes[0] of the last executed node.
C7_LinearChain ==
    /\ execution_results /= <<>> =>
          execution_results[1].node_id = workflow.start_node_id
    /\ \A i \in 1..(Len(execution_results) - 1) :
          /\ execution_results[i].success
          /\ NodeOf(execution_results[i]).type /= "end"
          /\ NodeOf(execution_results[i]).next_nodes /= <<>>
          /\ execution_results[i + 1].node_id =
                NodeOf(execution_results[i]).next_nodes[1]
    /\ (pc = "loop" /\ execution_results /= <<>>) =>
          /\ NodeOf(Last(execution_results)).type /= "end"
          /\ NodeOf(Last(execution_results)).next_nodes /= <<>>
          /\ current_node_id = NodeOf(Last(execution_results)).next_nodes[1]

\* a run ended at an end node that has a successor, reached as the first of
\* two successors whose second was never executed
C7_Witness ==
    /\ pc = "done"
    /\ Len(execution_results) = 2
    /\ Len(NodeOf(execution_results[1]).next_nodes) = 2
    /\ NodeOf(execution_results[1]).next_nodes[2] /= execution_results[2].node_id
    /\ NodeMapGet(workflow.nodes, NodeOf(execution_results[1]).next_nodes[2]) /= NoNode
    /\ execution_results[2].node_type = "end"
    /\ NodeOf(execution_results[2]).next_nodes /= <<>>
    /\ halted_by = "end"


-----------------------------------------------------------------------------
(* Scores: exact rationals <<numerator, denominator>>, denominator > 0 *)

RECURSIVE GCD(_, _)
GCD(a, b) == IF b = 0 THEN a ELSE GCD(b, a % b)

Rat(n, d) ==
    LET g == GCD(IF n < 0 THEN -n ELSE n, d)
    IN  IF n = 0 THEN <<0, 1>> ELSE <<n \div g, d \div g>>

Zero == Rat(0, 1)
One  == Rat(1, 1)
RAdd(a, b) == Rat(a[1] * b[2] + b[1] * a[2], a[2] * b[2])
RSub(a, b) == Rat(a[1] * b[2] - b[1] * a[2], a[2] * b[2])
RMul(a, b) == Rat(a[1] * b[1], a[2] * b[2])
RDiv(a, b) == Rat(a[1] * b[2], a[2] * b[1])       \* b > 0
RLe(a, b)  == a[1] * b[2] <= b[1] * a[2]
RLt(a, b)  == a[1] * b[2] < b[1] * a[2]
RAbs(a)    == IF a[1] < 0 THEN <<-a[1], a[2]>> ELSE a
RMax(a, b) == IF RLe(a, b) THEN b ELSE a

-----------------------------------------------------------------------------
(* The hybrid search endpoint and hybrid_search *)

Docs == {"doc1", "doc2", "doc3"}

\* longest hit list an index returns
MaxHits == 2

\* raw BM25 scores of lexical hits and similarities of vector hits
RawScores == {Rat(3, 1), Rat(9, 1)}
CosScores == {Rat(50, 100), Rat(90, 100), Rat(100, 100)}

\* request fields
Weights   == {Rat(0, 1000), Rat(300, 1000), Rat(400, 1000), Rat(500, 1000),
              Rat(503, 1000), Rat(700, 1000), Rat(1000, 1000)}
MinScores == {Zero, Rat(1, 2)}
TopKs     == {1, 2, 3}

\* HybridSearchRequest (the query text is not modelled)
Requests ==
    [top_k : TopKs, keyword_weight : Weights, vector_weight : Weights,
     min_score : MinScores]

\* lists of at most n hits on distinct documents, best score first
HitLists(scores, n) ==
    UNION {{h \in [1..len -> [id : Docs, score : scores]] :
                /\ \A i \in 1..len : \A j \in 1..len : i /= j => h[i].id /= h[j].id
                /\ \A i \in 1..(len - 1) : RLe(h[i + 1].score, h[i].score)} :
           len \in 0..n}

Min(a, b) == IF a <= b THEN a ELSE b

\* what the lexical index answers to a search of the given size: the hits
\* and max_score, the score of the best hit (0 stands for null, no hit)
EsResponses(size) ==
    {[hits |-> h, max_score |-> IF h = <<>> THEN Zero ELSE h[1].score] :
        h \in HitLists(RawScores, Min(size, MaxHits))}

\* what the vector index answers to a search with the given limit
QdrantResponses(limit) == HitLists(CosScores, Min(limit, MaxHits))

\* payload of a document in the two indexes
EsTitle(id) == "es:" \o id
QdTitle(id) == "qdrant:" \o id

\* keyword_search: every hit with its raw score and its score divided by
\* (max_score or 1.0)
keyword_search(es) ==
    LET max_score == IF es.max_score = Zero THEN One ELSE es.max_score
    IN  [i \in 1..Len(es.hits) |->
            [doc_id |-> es.hits[i].id, title |-> EsTitle(es.hits[i].id),
             bm25_score |-> es.hits[i].score,
             normalized_bm25 |-> RDiv(es.hits[i].score, max_score)]]

\* vector_search: every hit with its similarity
vector_search(hits) ==
    [i \in 1..Len(hits) |->
        [doc_id |-> hits[i].id, title |-> QdTitle(hits[i].id),
         cosine_score |-> hits[i].score]]

\* position of key id in an insertion-ordered mapping (0: absent)
IndexOf(combined, id) ==
    IF \E i \in 1..Len(combined) : combined[i].doc_id = id
    THEN CHOOSE i \in 1..Len(combined) : combined[i].doc_id = id
    ELSE 0

\* combined_scores[doc_id] = entry: a new key is added last, an existing
\* key keeps its place
DictSet(combined, entry) ==
    IF IndexOf(combined, entry.doc_id) = 0 THEN Append(combined, entry)
    ELSE [combined EXCEPT ![IndexOf(combined, entry.doc_id)] = entry]

\* the loop over keyword_results (Step 2, first half)
RECURSIVE SeedLexical(_, _)
SeedLexical(results, n) ==
    IF n = 0 THEN <<>>
    ELSE DictSet(SeedLexical(results, n - 1),
                 [doc_id |-> results[n].doc_id, title |-> results[n].title,
                  bm25_score |-> results[n].normalized_bm25,
                  cosine_score |-> Zero, final_score |-> Zero])

\* a merge that drops the documents only the vector index found
RECURSIVE MergeVector_SkipsNew(_, _, _)
MergeVector_SkipsNew(combined, results, n) ==
    IF n = 0 THEN combined
    ELSE LET c == MergeVector_SkipsNew(combined, results, n - 1)
             i == IndexOf(c, results[n].doc_id)
         IN  IF i /= 0
             THEN [c EXCEPT ![i].cosine_score = results[n].cosine_score]
             ELSE c

\* a merge that adds an entry for every vector hit, known id or not
RECURSIVE MergeVector_AlwaysAppend(_, _, _)
MergeVector_AlwaysAppend(combined, results, n) ==
    IF n = 0 THEN combined
    ELSE Append(MergeVector_AlwaysAppend(combined, results, n - 1),
                [doc_id |-> results[n].doc_id, title |-> results[n].title,
                 bm25_score |-> Zero,
                 cosine_score |-> results[n].cosine_score,
                 final_score |-> Zero])

\* the loop over vector_results (Step 2, second half)
RECURSIVE MergeVector(_, _, _)
MergeVector(combined, results, n) ==
    IF n = 0 THEN combined
    ELSE LET c == MergeVector(combined, results, n - 1)
             i == IndexOf(c, results[n].doc_id)
         IN  IF i /= 0
             THEN [c EXCEPT ![i].cosine_score = results[n].cosine_score]
             ELSE Append(c, [doc_id |-> results[n].doc_id, title |-> results[n].title,
                             bm25_score |-> Zero,
                             cosine_score |-> results[n].cosine_score,
                             final_score |-> Zero])

\* FinalScore with the two weights swapped
FinalScore_Swapped(doc, keyword_weight, vector_weight) ==
    RAdd(RMul(doc.bm25_score, vector_weight), RMul(doc.cosine_score, keyword_weight))

\* FinalScore without the weights
FinalScore_Unweighted(doc, keyword_weight, vector_weight) ==
    RAdd(doc.bm25_score, doc.cosine_score)

\* the weighted sum of Step 3
FinalScore(doc, keyword_weight, vector_weight) ==
    RAdd(RMul(doc.bm25_score, keyword_weight), RMul(doc.cosine_score, vector_weight))

\* Step 3 over every entry
WithFinalScores(combined, keyword_weight, vector_weight) ==
    [i \in 1..Len(combined) |->
        [combined[i] EXCEPT !.final_score =
            FinalScore(combined[i], keyword_weight, vector_weight)]]

\* entry put into a list sorted by final_score, best first, behind the
\* entries of equal score
InsertSorted(sorted, entry) ==
    LET before == {i \in 1..Len(sorted) : RLe(entry.final_score, sorted[i].final_score)}
        k == Cardinality(before)
    IN  SubSeq(sorted, 1, k) \o <<entry>> \o SubSeq(sorted, k + 1, Len(sorted))

\* entry put in front of the entries of equal score
InsertSortedFront(sorted, entry) ==
    LET before == {i \in 1..Len(sorted) : RLt(entry.final_score, sorted[i].final_score)}
        k == Cardinality(before)
    IN  SubSeq(sorted, 1, k) \o <<entry>> \o SubSeq(sorted, k + 1, Len(sorted))

\* a descending sort that reverses the order of entries of equal score
RECURSIVE SortedByFinalScore_Unstable(_, _)
SortedByFinalScore_Unstable(combined, n) ==
    IF n = 0 THEN <<>>
    ELSE InsertSortedFront(SortedByFinalScore_Unstable(combined, n - 1), combined[n])

\* sorted(combined_scores.items(), key=final_score, reverse=True): a stable
\* sort, entries of equal score keep the order of the mapping
RECURSIVE SortedByFinalScore(_, _)
SortedByFinalScore(combined, n) ==
    IF n = 0 THEN <<>>
    ELSE InsertSorted(SortedByFinalScore(combined, n - 1), combined[n])

\* Step 4: the entries with final_score >= min_score
FilterByMinScore(ranked, min_score) ==
    SelectSeq(ranked, LAMBDA e : RLe(min_score, e.final_score))

\* a slice that keeps one entry more than top_k
Truncate_OneMore(filtered, top_k) == SubSeq(filtered, 1, Min(top_k + 1, Len(filtered)))

\* filtered_results[:top_k]
Truncate(filtered, top_k) == SubSeq(filtered, 1, Min(top_k, Len(filtered)))

\* Steps 2 to 4 of hybrid_search
Fuse(kresults, vresults, req) ==
    LET combined == MergeVector(SeedLexical(kresults, Len(kresults)),
                                vresults, Len(vresults))
        scored   == WithFinalScores(combined, req.keyword_weight, req.vector_weight)
        ranked   == SortedByFinalScore(scored, Len(scored))
    IN  Truncate(FilterByMinScore(ranked, req.min_score), req.top_k)

\* the tolerance of the weight check of search_by_hybrid
WeightTolerance == Rat(1, 100)

\* the weight check with a tolerance of 0.1
WeightsRejected_Loose(req) ==
    RLt(Rat(1, 10), RAbs(RSub(RAdd(req.keyword_weight, req.vector_weight), One)))

\* abs(keyword_weight + vector_weight - 1.0) > 0.01
WeightsRejected(req) ==
    RLt(WeightTolerance, RAbs(RSub(RAdd(req.keyword_weight, req.vector_weight), One)))


\* no workflow runs while a search request is served
WorkflowIdle ==
    /\ workflow = [nodes |-> <<>>, start_node_id |-> ""]
    /\ input_data = EmptyDict
    /\ passed_input = EmptyDict
    /\ kr_hits = 0
    /\ pc = "idle"
    /\ context = EmptyDict
    /\ execution_results = <<>>
    /\ current_node_id = ""
    /\ iteration = 0
    /\ halted_by = ""
    /\ returned = NoReturn
    /\ runs = NoRuns

\* a request that passed the field constraints of HybridSearchRequest
InitSearch ==
    /\ request \in Requests
    /\ hs_pc = "request"
    /\ keyword_results = <<>>
    /\ vector_results = <<>>
    /\ response = <<>>
    /\ calls = <<>>
    /\ asked = <<>>
    /\ failure = ""
    /\ WorkflowIdle
    /\ ChatIdle
    /\ ChunkIdle

\* an exception swallowed in the lexical step: hybrid_search goes on
RaisedFrom_Swallowed(step) == IF step = "keyword" THEN "vector" ELSE "failed"

\* except Exception: raise, in keyword_search, vector_search and
\* hybrid_search: an exception raised in a step leaves hybrid_search
RaisedFrom(step) == "failed"

\* a hybrid_search that asks each index for top_k hits only
CandidateCount_TopK(top_k) == top_k

\* top_k * 2: the number of candidates hybrid_search asks of each index
CandidateCount(top_k) == top_k * 2

\* search_by_hybrid: the weight check, then the call of hybrid_search
SearchByHybrid ==
    /\ hs_pc = "request"
    /\ hs_pc' = IF WeightsRejected(request) THEN "rejected" ELSE "keyword"
    /\ UNCHANGED <<request, keyword_results, vector_results, response, calls, asked, failure>>
    /\ UNCHANGED <<wfvars, chatvars, ckvars, runs>>

\* Step 1, keyword_search with top_k * 2: the lexical index answers
KeywordSearch ==
    /\ hs_pc = "keyword"
    /\ \E es \in EsResponses(CandidateCount(request.top_k)) :
          keyword_results' = keyword_search(es)
    /\ calls' = Append(calls, "lexical")
    /\ asked' = Append(asked, CandidateCount(request.top_k))
    /\ hs_pc' = "vector"
    /\ UNCHANGED <<request, vector_results, response, failure>>
    /\ UNCHANGED <<wfvars, chatvars, ckvars, runs>>

\* the lexical index fails: the exception leaves hybrid_search
KeywordSearchFails ==
    /\ hs_pc = "keyword"
    /\ calls' = Append(calls, "lexical")
    /\ asked' = Append(asked, CandidateCount(request.top_k))
    /\ failure' = "lexical"
    /\ hs_pc' = RaisedFrom("keyword")
    /\ UNCHANGED <<request, keyword_results, vector_results, response>>
    /\ UNCHANGED <<wfvars, chatvars, ckvars, runs>>

\* Step 1, vector_search with top_k * 2: the embedding service and the
\* vector index answer
VectorSearch ==
    /\ hs_pc = "vector"
    /\ \E hits \in QdrantResponses(CandidateCount(request.top_k)) :
          vector_results' = vector_search(hits)
    /\ calls' = calls \o <<"embedding", "vector">>
    /\ asked' = Append(asked, CandidateCount(request.top_k))
    /\ hs_pc' = "fuse"
    /\ UNCHANGED <<request, keyword_results, response, failure>>
    /\ UNCHANGED <<wfvars, chatvars, ckvars, runs>>

\* the embedding service fails (the vector index is not asked), or the
\* vector index fails
VectorSearchFails ==
    /\ hs_pc = "vector"
    /\ \E failed \in {"embedding", "vector"} :
          /\ calls' = IF failed = "embedding" THEN Append(calls, "embedding")
                      ELSE calls \o <<"embedding", "vector">>
          /\ asked' = IF failed = "embedding" THEN asked
                      ELSE Append(asked, CandidateCount(request.top_k))
          /\ failure' = failed
    /\ hs_pc' = RaisedFrom("vector")
    /\ UNCHANGED <<request, keyword_results, vector_results, response>>
    /\ UNCHANGED <<wfvars, chatvars, ckvars, runs>>

\* Steps 2 to 4 and the return of the results
FuseAndReturn ==
    /\ hs_pc = "fuse"
    /\ response' = Fuse(keyword_results, vector_results, request)
    /\ hs_pc' = "done"
    /\ UNCHANGED <<request, keyword_results, vector_results, calls, asked, failure>>
    /\ UNCHANGED <<wfvars, chatvars, ckvars, runs>>

NextSearch ==
    \/ SearchByHybrid
    \/ KeywordSearch
    \/ KeywordSearchFails
    \/ VectorSearch
    \/ VectorSearchFails
    \/ FuseAndReturn

SpecSearch == InitSearch /\ [][NextSearch]_vars


-----------------------------------------------------------------------------
(* Properties of hybrid_search *)

\* the lexical score of a document: its raw score over the largest raw
\* score of the lexical result set, 0 when the set does not hold it
LexicalScore(id) ==
    LET raws == {keyword_results[i].bm25_score : i \in 1..Len(keyword_results)}
        top  == CHOOSE m \in raws : \A r \in raws : RLe(r, m)
    IN  IF \E i \in 1..Len(keyword_results) : keyword_results[i].doc_id = id
        THEN RDiv(keyword_results[
                    CHOOSE i \in 1..Len(keyword_results) :
                        keyword_results[i].doc_id = id].bm25_score, top)
        ELSE Zero

\* the similarity of a document in the vector result set, 0 when absent
VectorScore(id) ==
    IF \E i \in 1..Len(vector_results) : vector_results[i].doc_id = id
    THEN vector_results[CHOOSE i \in 1..Len(vector_results) :
                            vector_results[i].doc_id = id].cosine_score
    ELSE Zero

\* C8: every returned hit carries its lexical score normalized by the
\* largest lexical score of the query (0 when absent), its similarity as it
\* is (0 when absent), and final_score = bm25_score * keyword_weight +
\* cosine_score * vector_weight.
C8_WeightedSum ==
    hs_pc = "done" =>
        \A i \in 1..Len(response) :
            /\ response[i].bm25_score = LexicalScore(response[i].doc_id)
            /\ response[i].cosine_score = VectorScore(response[i].doc_id)
            /\ response[i].final_score =
                  RAdd(RMul(LexicalScore(response[i].doc_id), request.keyword_weight),
                       RMul(VectorScore(response[i].doc_id), request.vector_weight))

\* a hit found by both indexes, below the best lexical score, is returned
\* with unequal weights
C8_Witness ==
    /\ hs_pc = "done"
    /\ request.keyword_weight /= request.vector_weight
    /\ \E i \in 1..Len(response) :
          /\ RLt(Zero, response[i].bm25_score)
          /\ RLt(response[i].bm25_score, One)
          /\ RLt(Zero, response[i].cosine_score)
          /\ response[i].bm25_score /= response[i].cosine_score

\* C9 as stated: with accepted weights every final_score lies in
\* [0, max(bm25_score, cosine_score)] of its hit.
C9_FinalScoreBelowMax ==
    hs_pc = "done" =>
        \A i \in 1..Len(response) :
            /\ RLe(Zero, response[i].final_score)
            /\ RLe(response[i].final_score,
                   RMax(response[i].bm25_score, response[i].cosine_score))

\* C9 amended: with accepted weights every final_score lies in
\* [0, (keyword_weight + vector_weight) * max(bm25_score, cosine_score)],
\* hence in [0, max(bm25_score, cosine_score)] when the weights sum to at
\* most 1, and in [0, 1.01 * max(bm25_score, cosine_score)] always.
C9_FinalScoreBelowWeightedMax ==
    hs_pc = "done" =>
        /\ ~WeightsRejected(request)
        /\ \A i \in 1..Len(response) :
            LET top == RMax(response[i].bm25_score, response[i].cosine_score)
                sum == RAdd(request.keyword_weight, request.vector_weight)
            IN  /\ RLe(Zero, response[i].bm25_score) /\ RLe(response[i].bm25_score, One)
                /\ RLe(Zero, response[i].cosine_score) /\ RLe(response[i].cosine_score, One)
                /\ RLe(Zero, response[i].final_score)
                /\ RLe(response[i].final_score, RMul(sum, top))
                /\ RLe(sum, One) => RLe(response[i].final_score, top)
                /\ RLe(response[i].final_score, RMul(RAdd(One, WeightTolerance), top))

\* accepted weights that sum to more than 1 gave a hit a final_score above
\* both of its scores
C9_Witness ==
    /\ hs_pc = "done"
    /\ RLt(One, RAdd(request.keyword_weight, request.vector_weight))
    /\ \E i \in 1..Len(response) :
          RLt(RMax(response[i].bm25_score, response[i].cosine_score),
              response[i].final_score)

\* place of a document in the merge: lexical hits in lexical order, then
\* the hits only the vector index found, in vector order
MergePlace(id) ==
    IF \E i \in 1..Len(keyword_results) : keyword_results[i].doc_id = id
    THEN CHOOSE i \in 1..Len(keyword_results) : keyword_results[i].doc_id = id
    ELSE Len(keyword_results) +
         (CHOOSE i \in 1..Len(vector_results) : vector_results[i].doc_id = id)

ResponseIds == [i \in 1..Len(response) |-> response[i].doc_id]

\* the inputs of Scenario A
ScenarioA ==
    /\ Len(keyword_results) = 2
    /\ keyword_results[1].doc_id = "doc1" /\ keyword_results[1].bm25_score = Rat(9, 1)
    /\ keyword_results[2].doc_id = "doc2" /\ keyword_results[2].bm25_score = Rat(3, 1)
    /\ Len(vector_results) = 2
    /\ vector_results[1].doc_id = "doc2" /\ vector_results[1].cosine_score = Rat(9, 10)
    /\ vector_results[2].doc_id = "doc3" /\ vector_results[2].cosine_score = Rat(5, 10)
    /\ request.keyword_weight = Rat(3, 10)
    /\ request.vector_weight = Rat(7, 10)
    /\ request.min_score = Zero
    /\ request.top_k = 3

\* C10: the returned hits are in non-increasing final_score order, hits of
\* equal final_score are in the order of the merge, and the Scenario A
\* inputs give [doc2, doc3, doc1] with scores 0.73, 0.35 and 0.3.
C10_RankedStable ==
    hs_pc = "done" =>
        /\ \A i \in 1..Len(response) : \A j \in 1..Len(response) :
              i < j =>
                /\ RLe(response[j].final_score, response[i].final_score)
                /\ response[i].final_score = response[j].final_score =>
                      MergePlace(response[i].doc_id) < MergePlace(response[j].doc_id)
        /\ ScenarioA =>
              /\ ResponseIds = <<"doc2", "doc3", "doc1">>
              /\ response[1].final_score = Rat(73, 100)
              /\ response[2].final_score = Rat(35, 100)
              /\ response[3].final_score = Rat(30, 100)

\* the Scenario A request has been answered
C10_Witness ==
    /\ hs_pc = "done"
    /\ ScenarioA
    /\ Len(response) = 3

\* two hits of equal final_score have been returned
C10_TieReturned ==
    /\ hs_pc = "done"
    /\ \E i \in 1..Len(response) : \E j \in 1..Len(response) :
          i < j /\ response[i].final_score = response[j].final_score

\* the documents of the two result sets
Candidates ==
    {keyword_results[i].doc_id : i \in 1..Len(keyword_results)}
    \cup {vector_results[i].doc_id : i \in 1..Len(vector_results)}

\* the fused score of a candidate, from the two result sets and the weights
FusedScore(id) ==
    RAdd(RMul(LexicalScore(id), request.keyword_weight),
         RMul(VectorScore(id), request.vector_weight))

\* the candidates whose fused score meets the request's threshold
Qualifying == {d \in Candidates : RLe(request.min_score, FusedScore(d))}

\* C11: hybrid_search returns at most top_k hits, each with final_score >=
\* min_score, and the threshold is applied before the truncation: the result
\* is the first top_k entries of the ranked list restricted to the entries
\* meeting the threshold (as many as top_k allows, and no omitted qualifying
\* entry ranks before a returned one).
C11_ThresholdThenTopK ==
    hs_pc = "done" =>
        /\ Len(response) <= request.top_k
        /\ \A i \in 1..Len(response) :
              /\ response[i].doc_id \in Qualifying
              /\ RLe(request.min_score, response[i].final_score)
        /\ \A i \in 1..Len(response) : \A j \in 1..Len(response) :
              i /= j => response[i].doc_id /= response[j].doc_id
        /\ Len(response) = Min(request.top_k, Cardinality(Qualifying))
        /\ \A d \in Qualifying :
              (\A i \in 1..Len(response) : response[i].doc_id /= d) =>
                  \A i \in 1..Len(response) :
                      \/ RLt(FusedScore(d), response[i].final_score)
                      \/ /\ FusedScore(d) = response[i].final_score
                         /\ MergePlace(response[i].doc_id) < MergePlace(d)

\* a request with a positive threshold has been answered with top_k hits
\* while one candidate met the threshold and was cut by top_k and another
\* candidate was below the threshold
C11_Witness ==
    /\ hs_pc = "done"
    /\ RLt(Zero, request.min_score)
    /\ Len(response) = request.top_k
    /\ \E d \in Qualifying : \A i \in 1..Len(response) : response[i].doc_id /= d
    /\ Candidates \ Qualifying /= {}

\* the sum of the two weights of the request differs from 1.0 by more
\* than 0.01
WeightSumOff ==
    LET sum == RAdd(request.keyword_weight, request.vector_weight)
    IN  RLt(Rat(101, 100), sum) \/ RLt(sum, Rat(99, 100))

C12_AcceptedInsideTolerance ==
    /\ hs_pc = "done"
    /\ request.keyword_weight = Rat(500, 1000)
    /\ request.vector_weight = Rat(503, 1000)

\* the vector result set re-scored with bm25_score = 0, in vector order,
\* restricted to the hits meeting the threshold
VectorOnlyHits ==
    SelectSeq([i \in 1..Len(vector_results) |->
                  [doc_id |-> vector_results[i].doc_id,
                   title |-> vector_results[i].title,
                   bm25_score |-> Zero,
                   cosine_score |-> vector_results[i].cosine_score,
                   final_score |-> RMul(vector_results[i].cosine_score,
                                        request.vector_weight)]],
              LAMBDA e : RLe(request.min_score, e.final_score))

\* C18: when the lexical result set is empty, the output of hybrid_search
\* is the vector result set re-scored with bm25_score = 0 (final_score =
\* cosine_score * vector_weight), in vector order, subject to min_score and
\* top_k; when both result sets are empty the output is the empty list and
\* no error is raised.
C18_EmptyLexicalSet ==
    /\ hs_pc = "done" /\ keyword_results = <<>> =>
          /\ response = SubSeq(VectorOnlyHits, 1,
                               Min(request.top_k, Len(VectorOnlyHits)))
          /\ vector_results = <<>> => response = <<>>
    /\ hs_pc = "failed" => failure /= ""

\* an empty lexical set and two vector hits have been fused, and the
\* threshold or top_k removed one of them
C18_Witness ==
    /\ hs_pc = "done"
    /\ keyword_results = <<>>
    /\ Len(vector_results) = 2
    /\ Len(response) = 1
    /\ response[1].bm25_score = Zero
    /\ RLt(Zero, response[1].final_score)
    /\ RLt(response[1].final_score, response[1].cosine_score)

\* two empty result sets have been fused
C18_BothEmpty ==
    /\ hs_pc = "done"
    /\ keyword_results = <<>>
    /\ vector_results = <<>>
    /\ failure = ""

-----------------------------------------------------------------------------
(* Assistants and the chat endpoint: chat_router.chat, rag_service *)

\* values of SearchConfig.search_type, a free string: the three supported
\* types and two others
SearchTypes == {"keyword", "vector", "hybrid", "semantic", "Not Found"}

\* values of SearchConfig.keyword_weight and vector_weight, each in [0, 1]
AssistantWeights == {Rat(3, 10), Rat(5, 10), Rat(7, 10)}

\* values of SearchConfig.top_k
AssistantTopKs == {1, 2}

\* SearchConfig: every combination of fields that pass the field constraints
SearchConfigs ==
    [search_type : SearchTypes, top_k : AssistantTopKs,
     keyword_weight : AssistantWeights, vector_weight : AssistantWeights,
     min_score : MinScores]

\* the id create_assistant gives the assistant, and an id never given
AssistantIds == {"asst_1", "asst_2"}

\* values of model, system_prompt and temperature, taken together
LlmSettings == {"settings_1", "settings_2"}

\* the stored assistant document (the name is not modelled; model,
\* system_prompt and temperature are one field)
Assistant(id, model, search_config) ==
    [assistant_id |-> id, model |-> model, search_config |-> search_config]

\* ValueError(f"{prefix}{arg}")
ValueError(prefix, arg) == [type |-> "ValueError", prefix |-> prefix, arg |-> arg]

\* the exception an adapter raises: HTTPException from the model endpoint,
\* the client libraries' errors from the indexes and the database
AdapterError(adapter) == [type |-> "Exception", prefix |-> adapter, arg |-> ""]

\* "not found" in s.lower(), for the pieces of text the messages are made of
LowerContainsNotFound(s) == s \in {"Assistant not found: ", "Not Found"}

\* the except clauses of chat: a ValueError whose text contains "not found"
\* gives 404, every other exception gives 400
ChatError(exc) ==
    [status |-> IF /\ exc.type = "ValueError"
                   /\ \/ LowerContainsNotFound(exc.prefix)
                      \/ LowerContainsNotFound(exc.arg)
                THEN 404 ELSE 400,
     detail |-> exc]

\* ChatResponse(**result)
ChatOk(answer, sources) ==
    [status |-> 200, answer |-> answer, sources |-> sources,
     total_sources |-> Len(sources)]

\* result.get(key, default)
DictGet(result, key, default) == IF key \in DOMAIN result THEN result[key] ELSE default

\* f"{score:.2f}": the score in hundredths, rounded
Format2f(score) == (200 * score[1] + score[2]) \div (2 * score[2])

\* the first line of a context text that lists documents
ContextHeader == "documents found:"

\* format_search_results_as_context: the placeholder for no results, else
\* the header and one paragraph per result (the content of a hit is read and
\* rendered like its title)
format_search_results_as_context(results) ==
    IF results = <<>> THEN [header |-> NoDocumentsText, documents |-> <<>>]
    ELSE [header |-> ContextHeader,
          documents |->
              [i \in 1..Len(results) |->
                  [idx |-> i,
                   score |-> Format2f(DictGet(results[i], "score", Zero)),
                   title |-> DictGet(results[i], "title", "untitled")]]]

\* what the lexical index answers to a search with a min_score
EsResponsesAbove(size, min_score) ==
    {es \in EsResponses(size) :
        \A i \in 1..Len(es.hits) : RLe(min_score, es.hits[i].score)}

\* what the vector index answers to a search with a score_threshold
QdrantResponsesAbove(limit, min_score) ==
    {hits \in QdrantResponses(limit) :
        \A i \in 1..Len(hits) : RLe(min_score, hits[i].score)}

\* the arguments perform_search passes to hybrid_search
HybridArguments(search_config) ==
    [top_k |-> search_config.top_k,
     keyword_weight |-> search_config.keyword_weight,
     vector_weight |-> search_config.vector_weight,
     min_score |-> search_config.min_score]

\* no assistant is stored and no request is served
InitChat ==
    /\ store = EmptyDict
    /\ chat_pc = "idle"
    /\ chat_request = [assistant_id |-> ""]
    /\ assistant = NoAssistant
    /\ search_results = <<>>
    /\ chat_context = NoContext
    /\ chat_response = NoResponse
    /\ llm_request = NoLlmRequest
    /\ SearchIdle
    /\ WorkflowIdle
    /\ ChunkIdle

\* create_assistant: the search_config of the request is stored as it is
CreateAssistant ==
    /\ chat_pc = "idle"
    /\ store = EmptyDict
    /\ \E search_config \in SearchConfigs :
          store' = [id \in {"asst_1"} |-> Assistant(id, "settings_1", search_config)]
    /\ UNCHANGED <<chat_pc, chat_request, assistant, search_results,
                   chat_context, chat_response, llm_request>>
    /\ UNCHANGED <<wfvars, hsvars, ckvars, runs>>

\* a ChatRequest arrives
Chat ==
    /\ chat_pc = "idle"
    /\ \E id \in AssistantIds : chat_request' = [assistant_id |-> id]
    /\ chat_pc' = "get_assistant"
    /\ UNCHANGED <<store, llm_request, assistant, search_results, chat_context, chat_response>>
    /\ UNCHANGED <<wfvars, hsvars, ckvars, runs>>

\* chat_with_rag step 1: get_assistant answers; None raises
\* ValueError("Assistant not found: ...")
GetAssistant ==
    /\ chat_pc = "get_assistant"
    /\ calls' = Append(calls, "store")
    /\ asked' = asked
    /\ LET id == chat_request.assistant_id
           found == IF id \in DOMAIN store THEN store[id] ELSE NoAssistant
       IN  /\ assistant' = found
           /\ IF found = NoAssistant
              THEN /\ chat_response' = ChatError(ValueError("Assistant not found: ", id))
                   /\ chat_pc' = "done"
              ELSE /\ chat_response' = chat_response
                   /\ chat_pc' = "search"
    /\ UNCHANGED <<store, llm_request, chat_request, search_results, chat_context>>
    /\ UNCHANGED <<hs_pc, request, keyword_results, vector_results, response, failure>>
    /\ UNCHANGED <<wfvars, ckvars, runs>>

\* the database fails
GetAssistantFails ==
    /\ chat_pc = "get_assistant"
    /\ calls' = Append(calls, "store")
    /\ asked' = asked
    /\ failure' = "store"
    /\ chat_response' = ChatError(AdapterError("store"))
    /\ chat_pc' = "done"
    /\ UNCHANGED <<store, llm_request, chat_request, assistant, search_results, chat_context>>
    /\ UNCHANGED <<hs_pc, request, keyword_results, vector_results, response>>
    /\ UNCHANGED <<wfvars, ckvars, runs>>

\* perform_search: the branch on search_type; an unsupported type raises
\* ValueError("Invalid search type: ...")
PerformSearch ==
    /\ chat_pc = "search"
    /\ LET search_config == assistant.search_config
           search_type == search_config.search_type
       IN  /\ chat_pc' = CASE search_type = "keyword" -> "keyword_search"
                           [] search_type = "vector" -> "vector_search"
                           [] search_type = "hybrid" -> "hybrid_search"
                           [] OTHER -> "done"
           /\ chat_response' =
                 IF search_type \in {"keyword", "vector", "hybrid"} THEN chat_response
                 ELSE ChatError(ValueError("Invalid search type: ", search_type))
           /\ hs_pc' = IF search_type = "hybrid" THEN "keyword" ELSE hs_pc
           /\ request' = IF search_type = "hybrid" THEN HybridArguments(search_config)
                         ELSE request
    /\ UNCHANGED <<store, llm_request, chat_request, assistant, search_results, chat_context>>
    /\ UNCHANGED <<keyword_results, vector_results, response, calls, asked, failure>>
    /\ UNCHANGED <<wfvars, ckvars, runs>>

\* keyword_search(top_k, min_score) answers; steps 3 and 4 follow
ChatKeywordSearch ==
    /\ chat_pc = "keyword_search"
    /\ \E es \in EsResponsesAbove(assistant.search_config.top_k,
                                  assistant.search_config.min_score) :
          /\ search_results' = keyword_search(es)
          /\ chat_context' = format_search_results_as_context(keyword_search(es))
    /\ calls' = Append(calls, "lexical")
    /\ asked' = Append(asked, assistant.search_config.top_k)
    /\ chat_pc' = "llm"
    /\ UNCHANGED <<store, llm_request, chat_request, assistant, chat_response>>
    /\ UNCHANGED <<hs_pc, request, keyword_results, vector_results, response, failure>>
    /\ UNCHANGED <<wfvars, ckvars, runs>>

\* vector_search(top_k, min_score) answers; steps 3 and 4 follow
ChatVectorSearch ==
    /\ chat_pc = "vector_search"
    /\ \E hits \in QdrantResponsesAbove(assistant.search_config.top_k,
                                        assistant.search_config.min_score) :
          /\ search_results' = vector_search(hits)
          /\ chat_context' = format_search_results_as_context(vector_search(hits))
    /\ calls' = calls \o <<"embedding", "vector">>
    /\ asked' = Append(asked, assistant.search_config.top_k)
    /\ chat_pc' = "llm"
    /\ UNCHANGED <<store, llm_request, chat_request, assistant, chat_response>>
    /\ UNCHANGED <<hs_pc, request, keyword_results, vector_results, response, failure>>
    /\ UNCHANGED <<wfvars, ckvars, runs>>

\* keyword_search or vector_search fails: the exception leaves
\* perform_search and chat_with_rag
ChatSearchFails ==
    /\ chat_pc \in {"keyword_search", "vector_search"}
    /\ \E failed \in IF chat_pc = "keyword_search" THEN {"lexical"}
                     ELSE {"embedding", "vector"} :
          /\ calls' = IF failed = "vector" THEN calls \o <<"embedding", "vector">>
                      ELSE Append(calls, failed)
          /\ asked' = IF failed = "embedding" THEN asked
                      ELSE Append(asked, assistant.search_config.top_k)
          /\ failure' = failed
          /\ chat_response' = ChatError(AdapterError(failed))
    /\ chat_pc' = "done"
    /\ UNCHANGED <<store, llm_request, chat_request, assistant, search_results, chat_context>>
    /\ UNCHANGED <<hs_pc, request, keyword_results, vector_results, response>>
    /\ UNCHANGED <<wfvars, ckvars, runs>>

\* hybrid_search returns; steps 3 and 4 follow
HybridSearchReturns ==
    /\ chat_pc = "hybrid_search"
    /\ hs_pc = "done"
    /\ search_results' = response
    /\ chat_context' = format_search_results_as_context(response)
    /\ chat_pc' = "llm"
    /\ UNCHANGED <<store, llm_request, chat_request, assistant, chat_response>>
    /\ UNCHANGED hsvars
    /\ UNCHANGED <<wfvars, ckvars, runs>>

\* hybrid_search raises: the exception leaves perform_search and
\* chat_with_rag
HybridSearchRaises ==
    /\ chat_pc = "hybrid_search"
    /\ hs_pc = "failed"
    /\ chat_response' = ChatError(AdapterError(failure))
    /\ chat_pc' = "done"
    /\ UNCHANGED <<store, llm_request, chat_request, assistant, search_results, chat_context>>
    /\ UNCHANGED hsvars
    /\ UNCHANGED <<wfvars, ckvars, runs>>

\* a chat_with_rag that reads the stored assistant again before the model
\* call
ChatAssistant_Reread ==
    IF chat_request.assistant_id \in DOMAIN store
    THEN store[chat_request.assistant_id] ELSE assistant

\* the local variable assistant of chat_with_rag, as steps 4 and 5 read it
ChatAssistant == assistant

\* steps 5 and 6: the model answers (the answer text may be missing) and the
\* response is built
CallModel ==
    /\ chat_pc = "llm"
    /\ calls' = Append(calls, "model")
    /\ asked' = asked
    /\ llm_request' = [model |-> ChatAssistant.model]
    /\ \E answer \in {"answer", ""} :
          chat_response' = ChatOk(answer, search_results)
    /\ chat_pc' = "done"
    /\ UNCHANGED <<store, chat_request, assistant, search_results, chat_context>>
    /\ UNCHANGED <<hs_pc, request, keyword_results, vector_results, response, failure>>
    /\ UNCHANGED <<wfvars, ckvars, runs>>

\* the model endpoint fails
CallModelFails ==
    /\ chat_pc = "llm"
    /\ calls' = Append(calls, "model")
    /\ asked' = asked
    /\ llm_request' = [model |-> ChatAssistant.model]
    /\ failure' = "model"
    /\ chat_response' = ChatError(AdapterError("model"))
    /\ chat_pc' = "done"
    /\ UNCHANGED <<store, chat_request, assistant, search_results, chat_context>>
    /\ UNCHANGED <<hs_pc, request, keyword_results, vector_results, response>>
    /\ UNCHANGED <<wfvars, ckvars, runs>>

NextChat ==
    \/ CreateAssistant
    \/ Chat
    \/ GetAssistant
    \/ GetAssistantFails
    \/ PerformSearch
    \/ ChatKeywordSearch
    \/ ChatVectorSearch
    \/ ChatSearchFails
    \/ KeywordSearch
    \/ KeywordSearchFails
    \/ VectorSearch
    \/ VectorSearchFails
    \/ FuseAndReturn
    \/ HybridSearchReturns
    \/ HybridSearchRaises
    \/ CallModel
    \/ CallModelFails

SpecChat == InitChat /\ [][NextChat]_vars

-----------------------------------------------------------------------------
(* Updates of an assistant while a chat is served:
   assistant_router.update_assistant, assistant_service.update_assistant *)

\* a field of UpdateAssistantRequest left out of the request
None == "None"
NoSearchConfig == [search_type |-> None]

\* search configurations of the stored assistant and of update requests,
\* one of each supported search_type
UpdateSearchConfigs ==
    {[search_type |-> "hybrid", top_k |-> 1, keyword_weight |-> Rat(3, 10),
      vector_weight |-> Rat(7, 10), min_score |-> Rat(1, 2)],
     [search_type |-> "keyword", top_k |-> 2, keyword_weight |-> Rat(3, 10),
      vector_weight |-> Rat(7, 10), min_score |-> Zero],
     [search_type |-> "vector", top_k |-> 1, keyword_weight |-> Rat(5, 10),
      vector_weight |-> Rat(5, 10), min_score |-> Zero]}

\* UpdateAssistantRequest: every field is optional
UpdateAssistantRequests ==
    {[model |-> m, search_config |-> c] :
        m \in {None} \cup LlmSettings, c \in {NoSearchConfig} \cup UpdateSearchConfigs}

\* update_data of update_assistant applied with $set: the fields the
\* request carries replace the stored ones
update_assistant(existing, req) ==
    [assistant_id |-> existing.assistant_id,
     model |-> IF req.model /= None THEN req.model ELSE existing.model,
     search_config |-> IF req.search_config /= NoSearchConfig
                       THEN req.search_config ELSE existing.search_config]

\* one assistant is stored and no request is served
InitAssistantUpdate ==
    /\ \E search_config \in UpdateSearchConfigs :
          store = [id \in {"asst_1"} |-> Assistant(id, "settings_1", search_config)]
    /\ chat_pc = "idle"
    /\ chat_request = [assistant_id |-> ""]
    /\ assistant = NoAssistant
    /\ search_results = <<>>
    /\ chat_context = NoContext
    /\ chat_response = NoResponse
    /\ llm_request = NoLlmRequest
    /\ SearchIdle
    /\ WorkflowIdle
    /\ ChunkIdle

\* PUT /assistants/{assistant_id}: an id the collection does not hold
\* gives 404 and writes nothing; else the document is updated
UpdateAssistant ==
    /\ \E id \in AssistantIds : \E req \in UpdateAssistantRequests :
          store' = IF id \in DOMAIN store
                   THEN [store EXCEPT ![id] = update_assistant(store[id], req)]
                   ELSE store
    /\ UNCHANGED <<chat_pc, chat_request, assistant, search_results,
                   chat_context, chat_response, llm_request>>
    /\ UNCHANGED <<wfvars, hsvars, ckvars, runs>>

NextAssistantUpdate ==
    \/ UpdateAssistant
    \/ Chat
    \/ GetAssistant
    \/ GetAssistantFails
    \/ PerformSearch
    \/ ChatKeywordSearch
    \/ ChatVectorSearch
    \/ ChatSearchFails
    \/ KeywordSearch
    \/ KeywordSearchFails
    \/ VectorSearch
    \/ VectorSearchFails
    \/ FuseAndReturn
    \/ HybridSearchReturns
    \/ HybridSearchRaises
    \/ CallModel
    \/ CallModelFails

SpecAssistantUpdate == InitAssistantUpdate /\ [][NextAssistantUpdate]_vars

-----------------------------------------------------------------------------
(* Properties of the chat endpoint *)

\* C13: every fusion is computed with weights whose sum is within 0.01 of
\* 1.0, whichever entry point reaches it: an assistant whose stored weights
\* violate the bound is never created, or never used for a hybrid fusion.
C13_FusionWeightsInTolerance ==
    /\ hs_pc \in {"fuse", "done"} => ~WeightSumOff
    /\ \A id \in DOMAIN store :
          LET search_config == store[id].search_config
          IN  \/ ~WeightsRejected(search_config)
              \/ ~(chat_pc = "hybrid_search" /\ assistant = store[id])

\* C14: the chat endpoint answers not-found (404) if and only if the
\* assistant id is absent from the collection; for an absent id no search,
\* embedding or model call is made; no other failure (an invalid search
\* type, an index or model error) is answered as not-found.
C14_NotFoundIffAbsent ==
    chat_pc = "done" =>
        LET absent == chat_request.assistant_id \notin DOMAIN store
        IN  /\ chat_response.status = 404 => absent
            /\ absent /\ failure /= "store" => chat_response.status = 404
            /\ absent => \A i \in 1..Len(calls) : calls[i] = "store"

\* C15: in chat_with_rag an adapter failure fails the whole request: each
\* adapter is called at most once (no retry), no step follows the failing
\* call, and neither an answer nor a list of sources is returned.
C15_AdapterFailureFailsRequest ==
    /\ \A i \in 1..Len(calls) : \A j \in 1..Len(calls) :
          i /= j => calls[i] /= calls[j]
    /\ failure /= "" =>
          /\ Last(calls) = failure
          /\ chat_pc \in {"hybrid_search", "done"}
          /\ chat_response.status \in {0, 400}
          /\ chat_pc = "done" =>
                /\ chat_response.status = 400
                /\ DOMAIN chat_response = {"status", "detail"}
                /\ chat_response.detail = AdapterError(failure)

\* a hybrid chat ended with an error after the vector index failed: the
\* lexical index and the embedding service had answered, the model was not
\* called
C15_Witness ==
    /\ chat_pc = "done"
    /\ failure = "vector"
    /\ calls = <<"store", "lexical", "embedding", "vector">>
    /\ keyword_results /= <<>>
    /\ chat_response.status = 400

\* the score a search ranks a hit by: the normalized lexical score, the
\* similarity or the final score
RankingScore(hit) ==
    CASE assistant.search_config.search_type = "keyword" -> hit.normalized_bm25
      [] assistant.search_config.search_type = "vector" -> hit.cosine_score
      [] OTHER -> hit.final_score

\* C16: for a non-empty result list format_search_results_as_context
\* renders the fixed header and one paragraph per hit, in order, and the
\* relevance shown for a hit is that hit's own ranking score, together with
\* its title and content.
C16_ContextShowsRankingScore ==
    chat_pc \in {"llm", "done"} /\ search_results /= <<>> =>
        /\ chat_context.header = ContextHeader
        /\ Len(chat_context.documents) = Len(search_results)
        /\ \A i \in 1..Len(search_results) :
              /\ chat_context.documents[i].idx = i
              /\ chat_context.documents[i].title = search_results[i].title
              /\ chat_context.documents[i].score =
                    Format2f(RankingScore(search_results[i]))

-----------------------------------------------------------------------------
(* The retrieval pipeline as a workflow *)

-----------------------------------------------------------------------------
(* The chunkers: document_service.split_text_into_chunks and               *)
(* qdrant_service._chunk_text.  A text is a sequence of characters.        *)

\* longest text
MaxTextLen == 4

\* largest chunk size and largest overlap
MaxChunkSize == 3

\* the number of loop iterations followed; a call that terminates makes at
\* most one iteration per character
MaxSteps == MaxTextLen + 2

Chars == {"a", " "}

Texts == UNION {[1..n -> Chars] : n \in 0..MaxTextLen}

Chunkers == {"split_text_into_chunks", "_chunk_text"}

Max(a, b) == IF a >= b THEN a ELSE b

\* an index of a slice brought into 0..n: a negative index counts from the
\* end
SliceIndex(i, n) == IF i < 0 THEN Max(i + n, 0) ELSE Min(i, n)

\* s[a:b]
Slice(s, a, b) ==
    LET lo == SliceIndex(a, Len(s))
        hi == SliceIndex(b, Len(s))
    IN  IF lo < hi THEN SubSeq(s, lo + 1, hi) ELSE <<>>

\* s.strip()
Strip(s) ==
    LET solid == {i \in 1..Len(s) : s[i] /= " "}
    IN  IF solid = {} THEN <<>>
        ELSE SubSeq(s, CHOOSE i \in solid : \A j \in solid : i <= j,
                       CHOOSE i \in solid : \A j \in solid : j <= i)

\* the chunk_overlap _chunk_text works with
ClampedOverlap(size, chunk_overlap) ==
    IF chunk_overlap >= size THEN Max(0, size \div 4) ELSE chunk_overlap

\* SplitStep with the next window starting where this one ends
SplitStep_NoOverlap(t, size, olap, st, cs) ==
    LET end == st + size
        chunk == Strip(Slice(t, st, end))
    IN  [chunks |-> IF chunk /= <<>> THEN Append(cs, chunk) ELSE cs,
         window |-> <<st, end>>,
         start |-> end,
         break |-> end >= Len(t)]

\* one pass of the while loop of split_text_into_chunks
SplitStep(t, size, olap, st, cs) ==
    LET end == st + size
        chunk == Strip(Slice(t, st, end))
    IN  [chunks |-> IF chunk /= <<>> THEN Append(cs, chunk) ELSE cs,
         window |-> <<st, end>>,
         start |-> end - olap,
         break |-> end >= Len(t)]

\* one pass of the while loop of _chunk_text
ChunkTextStep(t, size, olap, st, cs) ==
    LET end == Min(Len(t), st + size)
    IN  [chunks |-> Append(cs, Slice(t, st, end)),
         window |-> <<st, end>>,
         start |-> IF end = Len(t) THEN st ELSE Max(end - olap, st + 1),
         break |-> end = Len(t)]

\* a chunker is called with a text, a positive size and an overlap
InitChunk ==
    /\ chunker \in Chunkers
    /\ ck_pc = "call"
    /\ text \in Texts
    /\ chunk_size \in 1..MaxChunkSize
    /\ overlap \in 0..MaxChunkSize
    /\ start = 0
    /\ chunks = <<>>
    /\ windows = <<>>
    /\ SearchIdle
    /\ ChatIdle
    /\ WorkflowIdle

\* the statements before the loop: split_text_into_chunks returns [] for an
\* empty text, _chunk_text replaces an overlap that is not below the size
ChunkCall ==
    /\ ck_pc = "call"
    /\ IF chunker = "split_text_into_chunks"
       THEN /\ ck_pc' = IF Len(text) = 0 THEN "done" ELSE "loop"
            /\ overlap' = overlap
       ELSE /\ ck_pc' = "loop"
            /\ overlap' = ClampedOverlap(chunk_size, overlap)
    /\ start' = 0
    /\ chunks' = <<>>
    /\ UNCHANGED <<chunker, text, chunk_size, windows>>
    /\ UNCHANGED <<wfvars, hsvars, chatvars, runs>>

\* one pass of the loop
ChunkStep ==
    /\ ck_pc = "loop"
    /\ start < Len(text)
    /\ Len(windows) < MaxSteps
    /\ LET s == IF chunker = "split_text_into_chunks"
                THEN SplitStep(text, chunk_size, overlap, start, chunks)
                ELSE ChunkTextStep(text, chunk_size, overlap, start, chunks)
       IN  /\ chunks' = s.chunks
           /\ windows' = Append(windows, s.window)
           /\ start' = s.start
           /\ ck_pc' = IF s.break THEN "done" ELSE "loop"
    /\ UNCHANGED <<chunker, text, chunk_size, overlap>>
    /\ UNCHANGED <<wfvars, hsvars, chatvars, runs>>

\* the while condition is false: the list is returned
ChunkLoopExit ==
    /\ ck_pc = "loop"
    /\ ~(start < Len(text))
    /\ ck_pc' = "done"
    /\ UNCHANGED <<chunker, text, chunk_size, overlap, start, chunks, windows>>
    /\ UNCHANGED <<wfvars, hsvars, chatvars, runs>>

NextChunk == ChunkCall \/ ChunkStep \/ ChunkLoopExit

SpecChunk == InitChunk /\ [][NextChunk]_vars

\* a call that can take a step takes it
LiveSpecChunk == SpecChunk /\ WF_vars(NextChunk)

-----------------------------------------------------------------------------
(* Properties of the chunkers *)

\* C19: chunking terminates for every text, every size > 0 and every
\* overlap: an overlap of at least the size is clamped to size / 4, and the
\* start of the window strictly increases with every pass of the loop, in
\* both chunkers.
C19_ChunkingTerminates ==
    /\ <>(ck_pc = "done")
    /\ [](ck_pc \in {"loop", "done"} => overlap < chunk_size)
    /\ [][ck_pc = "loop" /\ ck_pc' = "loop" => start' > start]_vars

\* the slices of the windows taken so far
WindowTexts ==
    [k \in 1..Len(windows) |-> Slice(text, windows[k][1], windows[k][1] + chunk_size)]

C20_ChunkTextReturned ==
    /\ ck_pc = "done"
    /\ chunker = "_chunk_text"
    /\ 0 < overlap
    /\ Len(windows) = 3

\* C21: no chunk returned by a chunker is empty after trimming surrounding
\* whitespace (windows that are empty or hold only whitespace are dropped),
\* every chunk has at most size characters, and an empty text yields the
\* empty list rather than an error.
C21_NoEmptyChunks ==
    ck_pc = "done" =>
        /\ \A k \in 1..Len(chunks) :
              /\ Strip(chunks[k]) /= <<>>
              /\ Len(chunks[k]) <= chunk_size
        /\ text = <<>> => chunks = <<>>

-----------------------------------------------------------------------------
(* Properties of the node handlers and of the frame of execute_workflow *)

\* the node of the pass of the loop that is about to run
CurrentNode == NodeMapGet(workflow.nodes, current_node_id)

\* this step executed a node and recorded its result
ExecutedNow == Len(execution_results') = Len(execution_results) + 1

\* C23: executing a node of type condition or http_request never counts as
\* a successful step that changes the run: the node is rejected (its result
\* has success=false and the run halts) or it leaves the context exactly
\* unchanged.
C23_UnsupportedNodeRejectedOrNoOp ==
    [][ ExecutedNow /\ CurrentNode.type \in {"condition", "http_request"} =>
          \/ /\ ~Last(execution_results').success
             /\ halted_by' = "failed"
             /\ pc' = "return"
          \/ context' = context ]_vars

\* the scripts that raise whatever the context holds
RaisingScripts == {"1/0", "context['x']='c'; 1/0"}

\* C24: when the script of a code node raises, the node is a failing node:
\* its result has success=false with the error recorded, nothing is merged
\* into the context, no later node executes and the overall success is
\* false.
C24_RaisingScriptFailsNode ==
    \A i \in 1..Len(execution_results) :
        LET node == NodeOf(execution_results[i])
        IN  node.type = "code" /\ node.config.code \in RaisingScripts =>
                /\ ~execution_results[i].success
                /\ execution_results[i].error /= ""
                /\ execution_results[i].output = EmptyDict
                /\ i = Len(execution_results)
                /\ returned.returned => ~returned.success

\* C25: a code node changes the context only through the result mapping its
\* script populates: after the node the context is the previous context
\* overridden by result, and a script that raises (or a node that fails)
\* leaves the context exactly as it was before the node.
C25_CodeNodeWritesOnlyResult ==
    [][ ExecutedNow /\ CurrentNode.type = "code" =>
          LET ex == Exec(CurrentNode.config.code, context)
          IN  context' = IF ex.raised \/ ~ex.is_mapping THEN context
                         ELSE DictUpdate(context, ex.result) ]_vars

\* C30: when start_node_id or a followed next_nodes[0] names no node of the
\* workflow, execute_workflow halts without raising and without a result
\* for the missing node, and the overall success is computed from the nodes
\* executed so far only; a workflow whose start node is missing returns
\* empty nodes_executed, output_data equal to the input and success=true.
C30_MissingNodeHaltsQuietly ==
    halted_by = "not_found" =>
        /\ pc \in {"return", "done"}
        /\ NodeMapGet(workflow.nodes, current_node_id) = NoNode
        /\ \A i \in 1..Len(execution_results) :
              execution_results[i].node_id /= current_node_id
        /\ Len(execution_results) = iteration - 1
        /\ pc = "done" =>
              /\ returned.returned
              /\ returned.nodes_executed = execution_results
              /\ returned.success =
                    (\A i \in 1..Len(execution_results) : execution_results[i].success)
              /\ current_node_id = workflow.start_node_id =>
                    /\ returned.nodes_executed = <<>>
                    /\ returned.output_data = returned.input_data
                    /\ returned.input_data = input_data
                    /\ returned.success

\* a run whose start_node_id names no node has returned
C30_Witness ==
    /\ pc = "done"
    /\ halted_by = "not_found"
    /\ current_node_id = workflow.start_node_id
    /\ returned.nodes_executed = <<>>
    /\ returned.input_data /= EmptyDict
    /\ returned.success

\* a run has returned after two nodes because the second one named a
\* successor that is no node
C30_MissingSuccessor ==
    /\ pc = "done"
    /\ halted_by = "not_found"
    /\ Len(returned.nodes_executed) = 2

\* C29: execute_workflow never modifies the caller-supplied input: the
\* input_data of the returned result, and the caller's mapping itself, equal
\* the input as it was passed in, key for key, even when executed nodes
\* write keys that collide with input keys; those writes appear only in
\* output_data.
C29_InputUntouched ==
    /\ input_data = passed_input
    /\ returned.returned => returned.input_data = passed_input

\* a node has overwritten a key of the input in the context of a run that
\* has returned
C29_CollidingWrite ==
    /\ pc = "done"
    /\ "user_message" \in DOMAIN passed_input
    /\ "user_message" \in DOMAIN returned.output_data
    /\ returned.output_data["user_message"] /= passed_input["user_message"]
    /\ returned.input_data = passed_input

-----------------------------------------------------------------------------
(* The fused candidate set *)

\* the ids of the lexical and of the vector result set
LexicalIds == {keyword_results[i].doc_id : i \in 1..Len(keyword_results)}
VectorIds == {vector_results[i].doc_id : i \in 1..Len(vector_results)}

\* combined_scores after Step 2, for the result sets of the request
CombinedScores ==
    MergeVector(SeedLexical(keyword_results, Len(keyword_results)),
                vector_results, Len(vector_results))

\* C26: the fused candidate set of hybrid_search is the union of the
\* document ids of the two result sets, each id exactly once: an id in both
\* sets gives one entry with both scores, an id in one set gives one entry
\* with the other score 0, and no id appears twice in the returned list.
C26_UnionWithoutDuplicates ==
    hs_pc \in {"fuse", "done"} =>
        /\ {CombinedScores[i].doc_id : i \in 1..Len(CombinedScores)}
              = LexicalIds \cup VectorIds
        /\ Len(CombinedScores) = Cardinality(LexicalIds \cup VectorIds)
        /\ \A i \in 1..Len(CombinedScores) :
              LET id == CombinedScores[i].doc_id
              IN  /\ CombinedScores[i].bm25_score = LexicalScore(id)
                  /\ CombinedScores[i].cosine_score = VectorScore(id)
                  /\ id \notin LexicalIds => CombinedScores[i].bm25_score = Zero
                  /\ id \notin VectorIds => CombinedScores[i].cosine_score = Zero
        /\ hs_pc = "done" =>
              /\ \A i \in 1..Len(response) : \A j \in 1..Len(response) :
                    i /= j => response[i].doc_id /= response[j].doc_id
              /\ \A i \in 1..Len(response) :
                    response[i].doc_id \in LexicalIds \cup VectorIds
              /\ request.min_score = Zero
                 /\ Cardinality(LexicalIds \cup VectorIds) <= request.top_k =>
                    {response[i].doc_id : i \in 1..Len(response)}
                        = LexicalIds \cup VectorIds

\* three documents have been returned: one found by both indexes, one by
\* the lexical index only, one by the vector index only
C26_Witness ==
    /\ hs_pc = "done"
    /\ Len(response) = 3
    /\ LexicalIds \cap VectorIds /= {}
    /\ LexicalIds \ VectorIds /= {}
    /\ VectorIds \ LexicalIds /= {}
    /\ \E i \in 1..3 : response[i].doc_id \in LexicalIds \cap VectorIds
                       /\ RLt(Zero, response[i].bm25_score)
                       /\ RLt(Zero, response[i].cosine_score)

-----------------------------------------------------------------------------
(* The dispatch of perform_search *)

\* the adapters called so far
Called == {calls[i] : i \in 1..Len(calls)}

\* C27: perform_search dispatches on search_type: keyword calls only the
\* lexical index; vector calls only the embedding service and the vector
\* index; hybrid calls both indexes, each asked for 2 * top_k candidates, and
\* fuses the two sets; any other search_type makes no index, embedding or
\* model call and fails the request.
C27_DispatchOnSearchType ==
    assistant /= NoAssistant =>
        LET search_config == assistant.search_config
            search_type == search_config.search_type
            top_k == search_config.top_k
            searched == chat_pc = "llm" \/ chat_response.status = 200
        IN  /\ search_type = "keyword" =>
                  /\ Called \subseteq {"store", "lexical", "model"}
                  /\ \A i \in 1..Len(asked) : asked[i] = top_k
                  /\ searched => /\ SubSeq(calls, 1, 2) = <<"store", "lexical">>
                                 /\ asked = <<top_k>>
            /\ search_type = "vector" =>
                  /\ Called \subseteq {"store", "embedding", "vector", "model"}
                  /\ \A i \in 1..Len(asked) : asked[i] = top_k
                  /\ searched =>
                        /\ SubSeq(calls, 1, 3) = <<"store", "embedding", "vector">>
                        /\ asked = <<top_k>>
            /\ search_type = "hybrid" =>
                  /\ \A i \in 1..Len(asked) : asked[i] = 2 * top_k
                  /\ searched =>
                        /\ SubSeq(calls, 1, 4)
                              = <<"store", "lexical", "embedding", "vector">>
                        /\ asked = <<2 * top_k, 2 * top_k>>
                        /\ search_results
                              = Fuse(keyword_results, vector_results,
                                     HybridArguments(search_config))
            /\ search_type \notin {"keyword", "vector", "hybrid"} =>
                  /\ Called \subseteq {"store"}
                  /\ asked = <<>>
                  /\ chat_pc \notin {"keyword_search", "vector_search",
                                     "hybrid_search", "llm"}
                  /\ chat_pc = "done" =>
                        /\ chat_response.status \in {400, 404}
                        /\ chat_response.detail.type = "ValueError"

\* a hybrid assistant with top_k 1 has been served: each index was asked for
\* two candidates, the lexical index gave two, and one fused hit went on to
\* the model
C27_Witness ==
    /\ chat_pc = "done"
    /\ chat_response.status = 200
    /\ assistant /= NoAssistant
    /\ assistant.search_config.search_type = "hybrid"
    /\ assistant.search_config.top_k = 1
    /\ asked = <<2, 2>>
    /\ Len(keyword_results) = 2
    /\ Len(search_results) = 1
    /\ calls = <<"store", "lexical", "embedding", "vector", "model">>

\* an assistant whose search_type is none of the three has been refused
\* after the read of the store alone
C27_UnsupportedTypeRefused ==
    /\ chat_pc = "done"
    /\ assistant /= NoAssistant
    /\ assistant.search_config.search_type = "semantic"
    /\ calls = <<"store">>
    /\ chat_response.status = 400

-----------------------------------------------------------------------------
(* The assistant a chat works with *)

\* C28: the assistant configuration is a per-request snapshot: a chat that
\* reads the assistant after an update has been written works with the
\* updated model settings and search_config, a chat that has read the
\* assistant before an update finishes with the values it read, and no step
\* of a chat writes to the assistant store.
C28_AssistantIsSnapshot ==
    [][/\ chat_pc = "get_assistant" /\ chat_pc' = "search" =>
              assistant' = store[chat_request.assistant_id]
       /\ assistant /= NoAssistant => assistant' = assistant
       /\ store' /= store =>
              UNCHANGED <<chat_pc, chat_request, assistant, search_results,
                          chat_context, chat_response, llm_request, hsvars>>
       /\ llm_request' /= NoLlmRequest => llm_request'.model = assistant'.model
       /\ chat_pc' = "hybrid_search" =>
              request' = HybridArguments(assistant'.search_config)
       /\ chat_pc' \in {"keyword_search", "vector_search", "hybrid_search"} =>
              chat_pc' = assistant'.search_config.search_type \o "_search"
       /\ \A i \in 1..Len(asked') :
              assistant' /= NoAssistant =>
                 asked'[i] = IF assistant'.search_config.search_type = "hybrid"
                             THEN 2 * assistant'.search_config.top_k
                             ELSE assistant'.search_config.top_k]_vars

\* a chat has been answered with the settings and the keyword search it
\* read, while the store has held other settings and a vector search since
\* an update made during the chat
C28_Witness ==
    /\ chat_pc = "done"
    /\ chat_response.status = 200
    /\ assistant.model = "settings_1"
    /\ llm_request.model = "settings_1"
    /\ assistant.search_config.search_type = "keyword"
    /\ calls = <<"store", "lexical", "model">>
    /\ store["asst_1"].model = "settings_2"
    /\ store["asst_1"].search_config.search_type = "vector"

\* a chat that began after an update has been answered with the updated
\* settings
C28_UpdatedBeforeChat ==
    /\ chat_pc = "done"
    /\ chat_response.status = 200
    /\ llm_request.model = "settings_2"
    /\ assistant = store["asst_1"]

-----------------------------------------------------------------------------
(* Two requests to workflow_router.execute_workflow served at the same time.
   Each request loads its own WorkflowDefinition and calls execute_workflow,
   whose context, node_map, execution_results, current_node_id and iteration
   are local variables of the call; the event loop switches between the two
   calls at their awaits, one per node. *)

RunIds == {1, 2}

\* the workflows stored for the two requests
StoredWorkflows ==
    {RagWorkflow,
     [nodes |-> <<Node("n1", "variable",
                       Config("", "", [k \in {"user_message"} |-> "v"]), <<"n2">>),
                  Node("n2", "code", Config("", "context.clear()", EmptyDict), <<"n3">>),
                  Node("n3", "llm", NoConfig, <<>>)>>,
      start_node_id |-> "n1"],
     [nodes |-> <<Node("n1", "code",
                       Config("", "context['items'].clear()", EmptyDict), <<"n2">>),
                  Node("n2", "code", Config("", "result['x']='c'", EmptyDict), <<"n3">>),
                  Node("n3", "end", NoConfig, <<>>)>>,
      start_node_id |-> "n1"]}

\* a call of execute_workflow before its first statement; answers is the
\* list of what the adapters answered to the call so far
StartOfRun(wf, inp, hits) ==
    [workflow |-> wf, input_data |-> inp, passed_input |-> inp, kr_hits |-> hits,
     pc |-> "start", context |-> EmptyDict, execution_results |-> <<>>,
     current_node_id |-> "", iteration |-> 0, halted_by |-> "",
     returned |-> NoReturn, answers |-> <<>>]

\* the next statement of the run awaits an adapter
AwaitsAdapter(run) ==
    /\ run.pc = "loop"
    /\ LoopCondition(run.current_node_id, run.iteration)
    /\ NodeMapGet(run.workflow.nodes, run.current_node_id).type
          \in {"knowledge_retrieval", "llm"}

\* the next step of a run of execute_workflow, as Begin, NodeNotFound,
\* ExecuteNode, LoopExit and Return make it
RunStep(run, adapter_ok) ==
    LET node == NodeMapGet(run.workflow.nodes, run.current_node_id)
        r    == execute_node(node, run.context, adapter_ok, run.kr_hits)
        a    == AfterNode(node, r)
        log  == [run EXCEPT !.answers = Append(@, adapter_ok)]
    IN  CASE run.pc = "start" ->
                [log EXCEPT !.context = DictCopy(run.input_data),
                            !.execution_results = <<>>,
                            !.current_node_id = run.workflow.start_node_id,
                            !.iteration = 0,
                            !.pc = "loop"]
          [] run.pc = "loop" /\ ~LoopCondition(run.current_node_id, run.iteration) ->
                [log EXCEPT !.halted_by = IF run.current_node_id = "" THEN "empty_id"
                                          ELSE "limit",
                            !.pc = "return"]
          [] run.pc = "loop" /\ LoopCondition(run.current_node_id, run.iteration)
                             /\ node = NoNode ->
                [log EXCEPT !.iteration = @ + 1,
                            !.halted_by = "not_found",
                            !.pc = "return"]
          [] run.pc = "loop" /\ LoopCondition(run.current_node_id, run.iteration)
                             /\ node /= NoNode ->
                [log EXCEPT !.iteration = @ + 1,
                            !.execution_results = Append(@, r.result),
                            !.context = a.context,
                            !.current_node_id = a.next,
                            !.halted_by = a.halt,
                            !.input_data = SharedValues(run.input_data, run.context, r.ctx),
                            !.pc = IF a.halt = "" THEN "loop" ELSE "return"]
          [] run.pc = "return" ->
                [log EXCEPT !.returned = ReturnValue(run.input_data, run.context,
                                                     run.execution_results),
                            !.pc = "done"]
          [] OTHER -> run

\* an execute_workflow whose context is one mapping for all calls
RunOf_SharedContext(rs, id) == [rs[id] EXCEPT !.context = rs[1].context]

\* the variables of call id: each call has its own
RunOf(rs, id) == rs[id]

\* two requests have arrived; each has its workflow loaded and its input
InitTwoRuns ==
    /\ \E wf1 \in StoredWorkflows, wf2 \in StoredWorkflows :
       \E in1 \in Inputs, in2 \in Inputs :
          runs = [id \in RunIds |->
                     IF id = 1 THEN StartOfRun(wf1, in1, MaxKrHits)
                     ELSE StartOfRun(wf2, in2, 0)]
    /\ workflow = [nodes |-> <<>>, start_node_id |-> ""]
    /\ input_data = EmptyDict
    /\ passed_input = EmptyDict
    /\ kr_hits = 0
    /\ pc = "idle"
    /\ context = EmptyDict
    /\ execution_results = <<>>
    /\ current_node_id = ""
    /\ iteration = 0
    /\ halted_by = ""
    /\ returned = NoReturn
    /\ SearchIdle
    /\ ChatIdle
    /\ ChunkIdle

\* the event loop resumes one of the two calls, which runs to its next await
\* or to its end
RunAdvances ==
    /\ \E id \in RunIds :
          /\ runs[id].pc /= "done"
          /\ \E adapter_ok \in IF AwaitsAdapter(RunOf(runs, id)) THEN BOOLEAN ELSE {TRUE} :
                runs' = [runs EXCEPT ![id] = RunStep(RunOf(runs, id), adapter_ok)]
    /\ UNCHANGED <<wfvars, hsvars, chatvars, ckvars>>

NextTwoRuns == RunAdvances

SpecTwoRuns == InitTwoRuns /\ [][NextTwoRuns]_vars

\* the run of execute_workflow alone, with the same workflow, input and
\* adapter answers, after its first n steps
RECURSIVE Alone(_, _, _)
Alone(start_of_run, answers, n) ==
    IF n = 0 THEN start_of_run
    ELSE RunStep(Alone(start_of_run, answers, n - 1), answers[n])

====
